---- MODULE Spec2Model ----
(***************************************************************************)
(* Model of dariah_topics/preprocessing.py: the fuzzy segmenter            *)
(* (segment_fuzzy), the bag-of-words pipeline (create_dictionary,          *)
(* create_sparse_bow, find_stopwords, find_hapax, remove_features,         *)
(* save_sparse_bow) and the tokenizer (tokenize).                          *)
(***************************************************************************)
EXTENDS Integers, Sequences, FiniteSets, TLC

VARIABLES
    \* ---- segment_fuzzy: arguments, locals and the segments yielded so far
    document,         \* the iterable of chunks, each a sequence of tokens
    segment_size,     \* target length of a segment in tokens
    tolerance,        \* the tolerance as a rational [num, den]
    current_segment,  \* chunks accumulated for the segment being built
    current_size,     \* number of tokens in current_segment
    carry,            \* chunk (or chunk suffix) carried over; <<>> is None
    doc_pos,          \* number of chunks already drawn from doc_iter
    yielded,          \* the segment handed over by yield and not yet taken
                      \* by the consumer: <<>> or <<segment>>
    emitted,          \* the segments the consumer has received, in order
    seg_pc,           \* "idle" | "start" | "loop" | "done"
    \* ---- bag-of-words pipeline
    doc_labels,       \* list of document labels
    doc_tokens,       \* list of token lists, one per document
    id_types,         \* type dictionary {token: id}
    doc_ids,          \* document dictionary {label: id}
    sparse_bow,       \* table returned by create_sparse_bow: rows in index order
    clean_sparse_bow, \* table returned by the latest remove_features call,
                      \* the table as built before the first call
    features,         \* feature set of the latest remove_features call
    hapax,            \* list returned by the latest find_hapax call
    last_op,          \* the operation performed last
    error,            \* "none", or the exception the last operation raised
    bow_pc,           \* "idle" | "start" | "types" | "dicts" | "built" | "failed"
    mfw,              \* argument mfw of find_stopwords while it is the last
                      \* operation, 0 otherwise
    stopwords,        \* list returned by find_stopwords while it is the last
                      \* operation, <<>> otherwise
    mm_file,          \* lines written by save_sparse_bow while it is the last
                      \* operation, <<>> otherwise
    \* ---- tokenize
    text,             \* argument doc_txt as passed: a sequence of characters
    lower,            \* argument lower
    doc_txt,          \* local doc_txt: the text as rewritten so far
    tok_pos,          \* number of characters finditer has scanned
    tok_yielded,      \* the tokens yielded so far, in order
    tok_pc            \* "idle" | "start" | "lowered" | "stripped" | "scan" | "done"

seg_vars == <<document, segment_size, tolerance, current_segment,
              current_size, carry, doc_pos, yielded, emitted, seg_pc>>

bow_vars == <<doc_labels, doc_tokens, id_types, doc_ids, sparse_bow,
              clean_sparse_bow, features, hapax, last_op, error, bow_pc,
              mfw, stopwords, mm_file>>

tok_vars == <<text, lower, doc_txt, tok_pos, tok_yielded, tok_pc>>

vars == <<document, segment_size, tolerance, current_segment,
          current_size, carry, doc_pos, yielded, emitted, seg_pc,
          doc_labels, doc_tokens, id_types, doc_ids, sparse_bow,
          clean_sparse_bow, features, hapax, last_op, error, bow_pc,
          mfw, stopwords, mm_file,
          text, lower, doc_txt, tok_pos, tok_yielded, tok_pc>>

----------------------------------------------------------------------------
\* Bounds of the model.
MaxChunks == 3
MaxChunkLen == 4
MaxSegmentSize == 3
\* A run that terminates yields only non-empty segments, hence at most one per
\* token (plus one for a leftover of empty chunks); the record of the received
\* segments is not extended beyond that.
MaxYield == MaxChunks * MaxChunkLen + 1
MaxDocs == 2
MaxDocLen == 2
NumTokens == 2
\* the vocabulary of the corpora, and a word that occurs in no document
Words == <<"a", "b", "c", "d">>
Tokens == {Words[i] : i \in 1..NumTokens}
AbsentWord == "zz"
\* the document labels, in the order of doc_labels
Labels == <<"d1", "d2", "d3", "d4">>

----------------------------------------------------------------------------
\* Generic helpers.
Min(a, b) == IF a <= b THEN a ELSE b

Max(a, b) == IF a >= b THEN a ELSE b

Range(s) == {s[i] : i \in DOMAIN s}

RECURSIVE Flatten(_)
\* itertools.chain.from_iterable: the concatenation of a sequence of sequences
Flatten(ss) == IF ss = <<>> THEN <<>> ELSE Head(ss) \o Flatten(Tail(ss))

RECURSIVE SeqsUpTo(_, _)
\* all sequences over S of length 0..n
SeqsUpTo(S, n) ==
    IF n = 0 THEN {<<>>}
    ELSE LET shorter == SeqsUpTo(S, n - 1)
         IN  shorter \cup {Append(s, x) : s \in {t \in shorter : Len(t) = n - 1}, x \in S}

RECURSIVE SumLens(_)
SumLens(lens) == IF lens = <<>> THEN 0 ELSE Head(lens) + SumLens(Tail(lens))

\* The document whose chunks have the given lengths; its tokens are numbered
\* 1, 2, 3, ... in text order, so that every token occurrence is identifiable.
DocumentOf(lens) ==
    [i \in DOMAIN lens |->
        LET off == SumLens(SubSeq(lens, 1, i - 1))
        IN  [j \in 1..lens[i] |-> off + j]]

----------------------------------------------------------------------------
\* segment_fuzzy

\* Python's round() on a float n/d: round half to even.
RoundHalfEven(n, d) ==
    LET q == n \div d
        r == n % d
    IN  IF 2 * r < d THEN q
        ELSE IF 2 * r > d THEN q + 1
        ELSE IF q % 2 = 0 THEN q ELSE q + 1

\* lines 280-281: a tolerance in (0,1) is a fraction of segment_size
EffectiveTolerance(size, tol) ==
    IF tol.num > 0 /\ tol.num < tol.den
    THEN [num |-> RoundHalfEven(size * tol.num, tol.den), den |-> 1]
    ELSE tol

\* x > tolerance, for an integer x
ExceedsTolerance(x, tol) == x * tol.den > tol.num

\* chunk[:-n]
DropLast(chunk, n) ==
    IF n = 0 THEN <<>> ELSE SubSeq(chunk, 1, Max(Len(chunk) - n, 0))

\* chunk[-n:] taken one token short
TakeLast_OneShort(chunk, n) ==
    IF n = 0 THEN chunk ELSE SubSeq(chunk, Max(Len(chunk) - n, 0) + 2, Len(chunk))

\* chunk[-n:]
TakeLast(chunk, n) ==
    IF n = 0 THEN chunk ELSE SubSeq(chunk, Max(Len(chunk) - n, 0) + 1, Len(chunk))

\* line 290: chunk = list(carry if carry else next(doc_iter))
HasNextChunk == carry # <<>> \/ doc_pos < Len(document)

NextChunk == IF carry # <<>> THEN carry ELSE document[doc_pos + 1]

NextPos == IF carry # <<>> THEN doc_pos ELSE doc_pos + 1

\* lines 296-297, evaluated with the chunk already appended
TooLong(chunk) == (current_size + Len(chunk)) - segment_size

TooShort(chunk) == segment_size - ((current_size + Len(chunk)) - Len(chunk))

\* line 295
SegmentFull(chunk) == current_size + Len(chunk) >= segment_size

\* line 299 with max in place of min: one deviation above the tolerance
ShouldSplit_EitherExceeds(tol, too_long, too_short) ==
    tol.num >= 0 /\ ExceedsTolerance(Max(too_long, too_short), tol)

\* line 299
ShouldSplit(tol, too_long, too_short) ==
    tol.num >= 0 /\ ExceedsTolerance(Min(too_long, too_short), tol)

\* the comparison of line 303 the wrong way round
ShouldEvict_Flipped(too_long, too_short) == too_long <= too_short

\* line 303
ShouldEvict(too_long, too_short) == too_long >= too_short

\* the pipeline is not in use
BowIdle ==
    /\ doc_labels = <<>>
    /\ doc_tokens = <<>>
    /\ id_types = <<>>
    /\ doc_ids = <<>>
    /\ sparse_bow = <<>>
    /\ clean_sparse_bow = <<>>
    /\ features = {}
    /\ hapax = <<>>
    /\ last_op = "none"
    /\ error = "none"
    /\ bow_pc = "idle"
    /\ mfw = 0
    /\ stopwords = <<>>
    /\ mm_file = <<>>

\* the tokenizer is not in use
TokIdle ==
    /\ text = <<>>
    /\ lower = TRUE
    /\ doc_txt = <<>>
    /\ tok_pos = 0
    /\ tok_yielded = <<>>
    /\ tok_pc = "idle"

\* the segmenter is not in use
SegIdle ==
    /\ document = <<>>
    /\ segment_size = 1
    /\ tolerance = [num |-> 0, den |-> 1]
    /\ current_segment = <<>>
    /\ current_size = 0
    /\ carry = <<>>
    /\ doc_pos = 0
    /\ yielded = <<>>
    /\ emitted = <<>>
    /\ seg_pc = "idle"

SegInit ==
    /\ \E lens \in SeqsUpTo(0..MaxChunkLen, MaxChunks) : document = DocumentOf(lens)
    /\ segment_size \in 1..MaxSegmentSize
    /\ tolerance \in {[num |-> n, den |-> 1] : n \in -1..2}
                     \cup {[num |-> 1, den |-> 2], [num |-> 3, den |-> 4],
                           [num |-> 3, den |-> 2], [num |-> -1, den |-> 2]}
    /\ current_segment = <<>>
    /\ current_size = 0
    /\ carry = <<>>
    /\ doc_pos = 0
    /\ yielded = <<>>
    /\ emitted = <<>>
    /\ seg_pc = "start"
    /\ BowIdle
    /\ TokIdle

\* lines 280-286: the generator body up to the loop
Begin ==
    /\ seg_pc = "start"
    /\ yielded = <<>>
    /\ tolerance' = EffectiveTolerance(segment_size, tolerance)
    /\ current_segment' = <<>>
    /\ current_size' = 0
    /\ carry' = <<>>
    /\ doc_pos' = 0
    /\ seg_pc' = "loop"
    /\ UNCHANGED <<document, segment_size, yielded, emitted>>
    /\ UNCHANGED <<bow_vars, tok_vars>>

\* lines 290-295: one iteration in which the segment does not fill up
Accumulate ==
    /\ seg_pc = "loop"
    /\ yielded = <<>>
    /\ HasNextChunk
    /\ LET chunk == NextChunk
       IN  /\ ~SegmentFull(chunk)
           /\ current_segment' = Append(current_segment, chunk)
           /\ current_size' = current_size + Len(chunk)
           /\ carry' = <<>>
           /\ doc_pos' = NextPos
    /\ UNCHANGED <<document, segment_size, tolerance, yielded, emitted, seg_pc>>
    /\ UNCHANGED <<bow_vars, tok_vars>>

\* lines 290-302, 305-307: the chunk is cut, its tail is carried over
SplitChunk ==
    /\ seg_pc = "loop"
    /\ HasNextChunk
    /\ yielded = <<>>
    /\ LET chunk == NextChunk
           too_long == TooLong(chunk)
           too_short == TooShort(chunk)
       IN  /\ SegmentFull(chunk)
           /\ ShouldSplit(tolerance, too_long, too_short)
           /\ carry' = TakeLast(chunk, too_long)
           /\ yielded' = <<Append(current_segment, DropLast(chunk, too_long))>>
           /\ doc_pos' = NextPos
    /\ current_segment' = <<>>
    /\ current_size' = 0
    /\ UNCHANGED <<document, segment_size, tolerance, emitted, seg_pc>>
    /\ UNCHANGED <<bow_vars, tok_vars>>

\* lines 290-299, 303-307: the whole chunk is popped and carried over
EvictChunk ==
    /\ seg_pc = "loop"
    /\ HasNextChunk
    /\ yielded = <<>>
    /\ LET chunk == NextChunk
           too_long == TooLong(chunk)
           too_short == TooShort(chunk)
       IN  /\ SegmentFull(chunk)
           /\ ~ShouldSplit(tolerance, too_long, too_short)
           /\ ShouldEvict(too_long, too_short)
           /\ carry' = chunk
           /\ yielded' = <<current_segment>>
           /\ doc_pos' = NextPos
    /\ current_segment' = <<>>
    /\ current_size' = 0
    /\ UNCHANGED <<document, segment_size, tolerance, emitted, seg_pc>>
    /\ UNCHANGED <<bow_vars, tok_vars>>

\* lines 290-299, 303, 305-307: the segment is yielded with the chunk in it
KeepChunk ==
    /\ seg_pc = "loop"
    /\ HasNextChunk
    /\ yielded = <<>>
    /\ LET chunk == NextChunk
           too_long == TooLong(chunk)
           too_short == TooShort(chunk)
       IN  /\ SegmentFull(chunk)
           /\ ~ShouldSplit(tolerance, too_long, too_short)
           /\ ~ShouldEvict(too_long, too_short)
           /\ carry' = <<>>
           /\ yielded' = <<Append(current_segment, chunk)>>
           /\ doc_pos' = NextPos
    /\ current_segment' = <<>>
    /\ current_size' = 0
    /\ UNCHANGED <<document, segment_size, tolerance, emitted, seg_pc>>
    /\ UNCHANGED <<bow_vars, tok_vars>>

\* lines 290, 308-313: next(doc_iter) raises StopIteration; leftovers
Exhaust ==
    /\ seg_pc = "loop"
    /\ yielded = <<>>
    /\ ~HasNextChunk
    /\ yielded' = IF current_segment # <<>> THEN <<current_segment>> ELSE <<>>
    /\ seg_pc' = "done"
    /\ UNCHANGED <<document, segment_size, tolerance, current_segment,
                   current_size, carry, doc_pos, emitted>>
    /\ UNCHANGED <<bow_vars, tok_vars>>

\* The consumer (list(), a for loop, map) takes the yielded segment and calls
\* next() again, which resumes the generator.
Consume ==
    /\ yielded # <<>>
    /\ emitted' = IF Len(emitted) < MaxYield
                  THEN Append(emitted, yielded[1])
                  ELSE emitted
    /\ yielded' = <<>>
    /\ UNCHANGED <<document, segment_size, tolerance, current_segment,
                   current_size, carry, doc_pos, seg_pc>>
    /\ UNCHANGED <<bow_vars, tok_vars>>

\* the generator has returned and the consumer has everything it yielded
Finished == seg_pc = "done" /\ yielded = <<>>

SegNext ==
    \/ Begin
    \/ Accumulate
    \/ SplitChunk
    \/ EvictChunk
    \/ KeepChunk
    \/ Exhaust
    \/ Consume

SegSpec == SegInit /\ [][SegNext]_vars

\* The consumer (list(), segment(materialize=True), a for loop) keeps pulling
\* from the generator until it is exhausted.
FairSegSpec == SegInit /\ [][SegNext]_vars /\ WF_vars(SegNext)

----------------------------------------------------------------------------
\* Bag-of-words pipeline

\* the orders in which a Python set of these elements may be iterated
SetIteration(S) == {seq \in [1..Cardinality(S) -> S] : Range(seq) = S}

\* lines 445-446 and set() of line 447: the distinct tokens of the input;
\* nested is the outcome of all(isinstance(element, list) ...)
UniqueTokens(tokens, nested) ==
    IF nested THEN UNION {Range(tokens[i]) : i \in DOMAIN tokens}
    ELSE Range(tokens)

\* enumerate() with the default start 0
EnumerateFrom0(seq) ==
    [t \in Range(seq) |->
        (CHOOSE i \in DOMAIN seq :
            seq[i] = t /\ \A j \in DOMAIN seq : seq[j] = t => j <= i) - 1]

\* line 447: {token: id_ for id_, token in enumerate(..., 1)}; a later entry
\* for the same key replaces an earlier one
EnumerateFrom1(seq) ==
    [t \in Range(seq) |->
        CHOOSE i \in DOMAIN seq :
            seq[i] = t /\ \A j \in DOMAIN seq : seq[j] = t => j <= i]

\* create_dictionary: every result the set's iteration order allows
create_dictionary(tokens, nested) ==
    {EnumerateFrom1(seq) : seq \in SetIteration(UniqueTokens(tokens, nested))}

RECURSIVE FirstOccurrences(_)
\* the keys of a Counter, in insertion order
FirstOccurrences(seq) ==
    IF seq = <<>> THEN <<>>
    ELSE LET front == FirstOccurrences(SubSeq(seq, 1, Len(seq) - 1))
             last == seq[Len(seq)]
         IN  IF last \in Range(front) THEN front ELSE Append(front, last)

\* a counter that records the presence of a key instead of counting it
CounterOf_Presence(seq) ==
    [keys |-> FirstOccurrences(seq), cnt |-> [k \in Range(seq) |-> 1]]

\* collections.Counter(list): keys in insertion order and their counts
CounterOf(seq) ==
    [keys |-> FirstOccurrences(seq),
     cnt  |-> [k \in Range(seq) |-> Cardinality({i \in DOMAIN seq : seq[i] = k})]]

\* Counter.__getitem__: a missing key counts 0
CounterGet(counter, k) == IF k \in DOMAIN counter.cnt THEN counter.cnt[k] ELSE 0

\* lines 475-479: {label: Counter of token ids}; zip stops at the shorter list
\* and a repeated label keeps its last document
_create_large_counter(labels, tokens, type_dictionary) ==
    LET n == Min(Len(labels), Len(tokens))
        lastOf(l) == CHOOSE i \in 1..n :
                        labels[i] = l /\ \A j \in 1..n : labels[j] = l => j <= i
    IN  [l \in {labels[i] : i \in 1..n} |->
            CounterOf([j \in DOMAIN tokens[lastOf(l)] |->
                          type_dictionary[tokens[lastOf(l)][j]]])]

\* line 556: the counters keyed by document id
LargeCounterById(temp_counter, doc_dictionary) ==
    [d \in {doc_dictionary[l] : l \in DOMAIN temp_counter} |->
        temp_counter[CHOOSE l \in DOMAIN temp_counter : doc_dictionary[l] = d]]

RECURSIVE SparseIndexUpTo_NoSentinel(_, _)
RECURSIVE SparseIndexUpTo(_, _)
\* lines 508-509 alone: no tuple for a document without tokens
SparseIndexUpTo_NoSentinel(largecounter, n) ==
    IF n = 0 THEN <<>>
    ELSE LET keys == largecounter[n].keys
         IN  SparseIndexUpTo_NoSentinel(largecounter, n - 1)
             \o [i \in DOMAIN keys |-> <<n, keys[i]>>]

\* lines 504-509 for key in 1..n: (key, 0) for an empty counter, then one
\* tuple per key of the counter
SparseIndexUpTo(largecounter, n) ==
    IF n = 0 THEN <<>>
    ELSE LET keys == largecounter[n].keys
         IN  SparseIndexUpTo(largecounter, n - 1)
             \o (IF Len(keys) = 0 THEN <<<<n, 0>>>> ELSE <<>>)
             \o [i \in DOMAIN keys |-> <<n, keys[i]>>]

_create_sparse_index(largecounter) ==
    SparseIndexUpTo(largecounter, Cardinality(DOMAIN largecounter))

\* lines 554-567: a zero-filled table over the index, every cell then set to
\* the count of its token in its document
create_sparse_bow(labels, tokens, type_dictionary, doc_dictionary) ==
    LET largecounter == LargeCounterById(
                            _create_large_counter(labels, tokens, type_dictionary),
                            doc_dictionary)
        sparse_index == _create_sparse_index(largecounter)
    IN  [i \in DOMAIN sparse_index |->
            [doc_id   |-> sparse_index[i][1],
             token_id |-> sparse_index[i][2],
             count    |-> CounterGet(largecounter[sparse_index[i][1]],
                                     sparse_index[i][2])]]

RECURSIVE DropRows_FirstMatch(_, _, _)
RECURSIVE DropRows(_, _, _)
\* a drop that removes only the first row found for the labels
DropRows_FirstMatch(table, level, ids) ==
    IF table = <<>> THEN <<>>
    ELSE IF Head(table)[level] \in ids THEN Tail(table)
         ELSE <<Head(table)>> \o DropRows_FirstMatch(Tail(table), level, ids)

\* DataFrame.drop(labels, level=...): the rows whose index value at that level
\* is none of the labels, in their order
DropRows(table, level, ids) ==
    IF table = <<>> THEN <<>>
    ELSE LET rest == DropRows(Tail(table), level, ids)
         IN  IF Head(table)[level] \in ids THEN rest ELSE <<Head(table)>> \o rest

\* line 715 with a feature looked up although the dictionary lacks it
StoplistApplied_Unchecked(type_dictionary, feats) == feats

\* line 715
StoplistApplied(type_dictionary, feats) ==
    {word \in DOMAIN type_dictionary : word \in feats}

\* the row filter of line 716 applied to the document level
DropLevel_DocId == "doc_id"

\* line 716: level="token_id"
DropLevel == "token_id"

\* line 716: id_types[word] raises KeyError for a word the dictionary lacks
remove_features_raises(type_dictionary, feats) ==
    ~(StoplistApplied(type_dictionary, feats) \subseteq DOMAIN type_dictionary)

\* lines 713-718
remove_features(table, type_dictionary, feats) ==
    LET stoplist_applied == StoplistApplied(type_dictionary, feats)
    IN  DropRows(table, DropLevel,
                 {type_dictionary[word] :
                     word \in stoplist_applied \cap DOMAIN type_dictionary})

\* groupby(token_id).sum(): the token ids of the table, ascending
RECURSIVE SortedIds(_)
SortedIds(S) ==
    IF S = {} THEN <<>>
    ELSE LET m == CHOOSE x \in S : \A y \in S : x <= y
         IN  <<m>> \o SortedIds(S \ {m})

RECURSIVE SumCounts(_)
SumCounts(table) ==
    IF table = <<>> THEN 0 ELSE Head(table).count + SumCounts(Tail(table))

RowsOfToken(table, tid) == SelectSeq(table, LAMBDA r : r.token_id = tid)

\* lines 636-637 / 671-672: one row per token id with the summed counts
Collapsed(table) ==
    LET ids == SortedIds({table[i].token_id : i \in DOMAIN table})
    IN  [i \in DOMAIN ids |->
            [token_id |-> ids[i], count |-> SumCounts(RowsOfToken(table, ids[i]))]]

\* lines 635, 670: the inverse of the type dictionary
Type2Id(type_dictionary) ==
    [i \in {type_dictionary[w] : w \in DOMAIN type_dictionary} |->
        CHOOSE w \in DOMAIN type_dictionary : type_dictionary[w] = i]

\* [type2id[key] for key in ...]: a key the dictionary lacks raises KeyError
LookupRaises(type2id, rows) ==
    \E i \in DOMAIN rows : rows[i].token_id \notin DOMAIN type2id

LookupAll(type2id, rows) == [i \in DOMAIN rows |-> type2id[rows[i].token_id]]

\* line 673 applied to the rows of the table instead of the collapsed counts
HapaxRows_PerDocument(table) == SelectSeq(table, LAMBDA r : r.count = 1)

\* lines 671-673: the collapsed rows whose count is 1
HapaxRows(table) == SelectSeq(Collapsed(table), LAMBDA r : r.count = 1)

find_hapax_raises(table, type_dictionary) ==
    LookupRaises(Type2Id(type_dictionary), HapaxRows(table))

\* lines 670-676
find_hapax(table, type_dictionary) ==
    LookupAll(Type2Id(type_dictionary), HapaxRows(table))

\* Series.nlargest(n) (keep='first'): the n rows with the largest counts in
\* descending order of count, rows of equal count in their original order;
\* no row for n <= 0
RECURSIVE NLargest(_, _)
NLargest(rows, n) ==
    IF n <= 0 \/ rows = <<>> THEN <<>>
    ELSE LET i == CHOOSE k \in DOMAIN rows :
                      /\ \A j \in DOMAIN rows : rows[j].count <= rows[k].count
                      /\ \A j \in 1..(k - 1) : rows[j].count < rows[k].count
             rest == SubSeq(rows, 1, i - 1) \o SubSeq(rows, i + 1, Len(rows))
         IN  <<rows[i]>> \o NLargest(rest, n - 1)

\* lines 636-638: the collapsed rows selected as most frequent
StopwordRows(table, n) == NLargest(Collapsed(table), n)

\* lines 639-640: type2id[key] raises KeyError for an id the dictionary lacks
find_stopwords_raises(table, type_dictionary, n) ==
    LookupRaises(Type2Id(type_dictionary), StopwordRows(table, n))

\* lines 635-641
find_stopwords(table, type_dictionary, n) ==
    LookupAll(Type2Id(type_dictionary), StopwordRows(table, n))

\* the largest element of a non-empty set of numbers
SetMax(S) == CHOOSE x \in S : \A y \in S : y <= x

\* str(index.get_level_values(level).max()): nan for a table without rows
MaxLevelStr(table, level) ==
    IF table = <<>> THEN "nan"
    ELSE ToString(SetMax({table[i][level] : i \in DOMAIN table}))

\* line 595
Banner == "%%MatrixMarket matrix coordinate real general"

\* line 601: the header line
HeaderLine(table) ==
    MaxLevelStr(table, "doc_id") \o " " \o MaxLevelStr(table, "token_id")
        \o " " \o ToString(SumCounts(table))

\* one line of to_csv(sep=' ', header=None): index values, then the count
DataLine(row) ==
    ToString(row.doc_id) \o " " \o ToString(row.token_id)
        \o " " \o ToString(row.count)

\* lines 595-605: the lines of the file, without their line ends
save_sparse_bow(table) ==
    <<Banner, HeaderLine(table)>> \o [i \in DOMAIN table |-> DataLine(table[i])]

\* the largest mfw passed to find_stopwords: more than there are tokens
MaxMfw == NumTokens + 1

\* the corpora: 1..MaxDocs documents of 0..MaxDocLen tokens each
BowInit ==
    /\ \E n \in 1..MaxDocs :
          /\ doc_labels = SubSeq(Labels, 1, n)
          /\ doc_tokens \in [1..n -> SeqsUpTo(Tokens, MaxDocLen)]
    /\ id_types = <<>>
    /\ doc_ids = <<>>
    /\ sparse_bow = <<>>
    /\ clean_sparse_bow = <<>>
    /\ features = {}
    /\ hapax = <<>>
    /\ last_op = "none"
    /\ error = "none"
    /\ bow_pc = "start"
    /\ mfw = 0
    /\ stopwords = <<>>
    /\ mm_file = <<>>
    /\ SegIdle
    /\ TokIdle

\* id_types = create_dictionary(doc_tokens)
CreateTypeDictionary ==
    /\ bow_pc = "start"
    /\ id_types' \in create_dictionary(doc_tokens, TRUE)
    /\ last_op' = "create_dictionary"
    /\ bow_pc' = "types"
    /\ UNCHANGED <<doc_labels, doc_tokens, doc_ids, sparse_bow,
                   clean_sparse_bow, features, hapax, error>>
    /\ mfw' = 0
    /\ stopwords' = <<>>
    /\ mm_file' = <<>>
    /\ UNCHANGED <<seg_vars, tok_vars>>

\* doc_ids = create_dictionary(doc_labels)
CreateDocDictionary ==
    /\ bow_pc = "types"
    /\ doc_ids' \in create_dictionary(doc_labels, FALSE)
    /\ last_op' = "create_dictionary"
    /\ bow_pc' = "dicts"
    /\ UNCHANGED <<doc_labels, doc_tokens, id_types, sparse_bow,
                   clean_sparse_bow, features, hapax, error>>
    /\ mfw' = 0
    /\ stopwords' = <<>>
    /\ mm_file' = <<>>
    /\ UNCHANGED <<seg_vars, tok_vars>>

\* sparse_bow = create_sparse_bow(doc_labels, doc_tokens, id_types, doc_ids)
CreateSparseBow ==
    /\ bow_pc = "dicts"
    /\ sparse_bow' = create_sparse_bow(doc_labels, doc_tokens, id_types, doc_ids)
    /\ clean_sparse_bow' = sparse_bow'
    /\ last_op' = "create_sparse_bow"
    /\ bow_pc' = "built"
    /\ UNCHANGED <<doc_labels, doc_tokens, id_types, doc_ids, features, hapax,
                   error>>
    /\ mfw' = 0
    /\ stopwords' = <<>>
    /\ mm_file' = <<>>
    /\ UNCHANGED <<seg_vars, tok_vars>>

\* hapax = find_hapax(clean_sparse_bow, id_types)
FindHapax ==
    /\ bow_pc = "built"
    /\ IF find_hapax_raises(clean_sparse_bow, id_types)
       THEN /\ error' = "KeyError"
            /\ bow_pc' = "failed"
            /\ UNCHANGED hapax
       ELSE /\ hapax' = find_hapax(clean_sparse_bow, id_types)
            /\ UNCHANGED <<error, bow_pc>>
    /\ last_op' = "find_hapax"
    /\ UNCHANGED <<doc_labels, doc_tokens, id_types, doc_ids, sparse_bow,
                   clean_sparse_bow, features>>
    /\ mfw' = 0
    /\ stopwords' = <<>>
    /\ mm_file' = <<>>
    /\ UNCHANGED <<seg_vars, tok_vars>>

\* clean_sparse_bow = remove_features(clean_sparse_bow, id_types, feats)
RemoveFeatures ==
    /\ bow_pc = "built"
    /\ \E feats \in SUBSET (Tokens \cup {AbsentWord}) :
          /\ features' = feats
          /\ IF remove_features_raises(id_types, feats)
             THEN /\ error' = "KeyError"
                  /\ bow_pc' = "failed"
                  /\ UNCHANGED clean_sparse_bow
             ELSE /\ clean_sparse_bow' =
                         remove_features(clean_sparse_bow, id_types, feats)
                  /\ UNCHANGED <<error, bow_pc>>
    /\ last_op' = "remove_features"
    /\ UNCHANGED <<doc_labels, doc_tokens, id_types, doc_ids, sparse_bow, hapax>>
    /\ mfw' = 0
    /\ stopwords' = <<>>
    /\ mm_file' = <<>>
    /\ UNCHANGED <<seg_vars, tok_vars>>

\* stopwords = find_stopwords(clean_sparse_bow, id_types, n)
FindStopwords ==
    /\ bow_pc = "built"
    /\ \E n \in 0..MaxMfw :
          /\ mfw' = n
          /\ IF find_stopwords_raises(clean_sparse_bow, id_types, n)
             THEN /\ error' = "KeyError"
                  /\ bow_pc' = "failed"
                  /\ stopwords' = <<>>
             ELSE /\ stopwords' = find_stopwords(clean_sparse_bow, id_types, n)
                  /\ UNCHANGED <<error, bow_pc>>
    /\ last_op' = "find_stopwords"
    /\ mm_file' = <<>>
    /\ UNCHANGED <<doc_labels, doc_tokens, id_types, doc_ids, sparse_bow,
                   clean_sparse_bow, features, hapax>>
    /\ UNCHANGED <<seg_vars, tok_vars>>

\* save_sparse_bow(clean_sparse_bow, output)
SaveSparseBow ==
    /\ bow_pc = "built"
    /\ mm_file' = save_sparse_bow(clean_sparse_bow)
    /\ last_op' = "save_sparse_bow"
    /\ mfw' = 0
    /\ stopwords' = <<>>
    /\ UNCHANGED <<doc_labels, doc_tokens, id_types, doc_ids, sparse_bow,
                   clean_sparse_bow, features, hapax, error, bow_pc>>
    /\ UNCHANGED <<seg_vars, tok_vars>>

BowNext ==
    \/ CreateTypeDictionary
    \/ CreateDocDictionary
    \/ CreateSparseBow
    \/ FindHapax
    \/ RemoveFeatures
    \/ FindStopwords
    \/ SaveSparseBow

BowSpec == BowInit /\ [][BowNext]_vars

----------------------------------------------------------------------------
\* Tokenizer: tokenize(doc_txt) with the default expression (line 38) and
\* simple=False. A text is a sequence of characters; a character outside
\* ASCII is written as its code point.

MaxTextLen == 4

\* \p{Letter}: lower-case letters, upper-case letters that str.lower() maps to
\* a lower-case letter, and upper-case letters without a lower-case form
\* (U+2102, DOUBLE-STRUCK CAPITAL C, is of category Lu and lower() keeps it)
LowerLetters == {"a", "b", "e", "h", "i", "l", "m", "n", "o", "p", "s", "t", "x"}
CasedUpperLetters == {"B", "T"}
UncasedUpperLetters == {"U+2102"}
UpperLetters == CasedUpperLetters \cup UncasedUpperLetters
Letters == LowerLetters \cup UpperLetters

\* lines 187-190: FIGURE DASH, EN DASH, EM DASH, HORIZONTAL BAR
Dashes == {"U+2012", "U+2013", "U+2014", "U+2015"}

\* \p{Punctuation}
Punctuation == {".", "-"} \cup Dashes

\* the characters of the texts explored exhaustively
Alphabet == {"a", "B", "U+2102", ".", "-", "U+2013", " "}

\* the text of the doctest, line 178
ExampleText ==
    <<"T", "h", "i", "s", " ", "i", "s", " ", "o", "n", "e", " ",
      "e", "x", "a", "m", "p", "l", "e", " ", "t", "e", "x", "t", ".">>

\* str.lower() left out: every character is kept
LowerChar_Identity(c) == c

\* str.lower() on one character
LowerChar(c) ==
    IF c = "B" THEN "b" ELSE IF c = "T" THEN "t" ELSE c

\* line 182
Lowered(txt) == [i \in DOMAIN txt |-> LowerChar(txt[i])]

\* line 186: regex.sub("\.", "", doc_txt)
StripPeriods(txt) == SelectSeq(txt, LAMBDA c : c # ".")

\* lines 187-190: each dash replaced by a space
ReplaceDashes(txt) ==
    [i \in DOMAIN txt |-> IF txt[i] \in Dashes THEN " " ELSE txt[i]]

RECURSIVE LetterRun(_, _)
\* number of letters in a row from position i on
LetterRun(txt, i) ==
    IF i > Len(txt) \/ txt[i] \notin Letters THEN 0
    ELSE 1 + LetterRun(txt, i + 1)

\* \p{Punctuation}?\p{Letter}+ tried at position p, the punctuation first:
\* the last position matched, 0 when neither alternative matches
MatchTail(txt, p) ==
    IF p <= Len(txt) /\ txt[p] \in Punctuation /\ LetterRun(txt, p + 1) >= 1
    THEN p + LetterRun(txt, p + 1)
    ELSE IF LetterRun(txt, p) >= 1 THEN p + LetterRun(txt, p) - 1
    ELSE 0

RECURSIVE MatchEndFrom(_, _, _)
\* the expression tried at position i with \p{Letter}+ taking k letters, then
\* backtracking to k - 1, ..., 1 letters: the last position of the match, or 0
MatchEndFrom(txt, i, k) ==
    IF k = 0 THEN 0
    ELSE LET e == MatchTail(txt, i + k)
         IN  IF e # 0 THEN e ELSE MatchEndFrom(txt, i, k - 1)

\* the last position of the match that starts at position i, or 0
MatchEnd(txt, i) == MatchEndFrom(txt, i, LetterRun(txt, i))

\* finditer: the positions after pos at which a match starts
MatchStarts(txt, pos) == {i \in (pos + 1)..Len(txt) : MatchEnd(txt, i) # 0}

\* the leftmost of them
NextMatchStart(txt, pos) ==
    CHOOSE i \in MatchStarts(txt, pos) : \A j \in MatchStarts(txt, pos) : i <= j

TokInit ==
    /\ text \in SeqsUpTo(Alphabet, MaxTextLen) \cup {ExampleText}
    /\ lower \in BOOLEAN
    /\ doc_txt = text
    /\ tok_pos = 0
    /\ tok_yielded = <<>>
    /\ tok_pc = "start"
    /\ SegIdle
    /\ BowIdle

\* lines 181-182
Lowercase ==
    /\ tok_pc = "start"
    /\ doc_txt' = IF lower THEN Lowered(doc_txt) ELSE doc_txt
    /\ tok_pc' = "lowered"
    /\ UNCHANGED <<text, lower, tok_pos, tok_yielded>>
    /\ UNCHANGED <<seg_vars, bow_vars>>

\* line 186
RemovePeriods ==
    /\ tok_pc = "lowered"
    /\ doc_txt' = StripPeriods(doc_txt)
    /\ tok_pc' = "stripped"
    /\ UNCHANGED <<text, lower, tok_pos, tok_yielded>>
    /\ UNCHANGED <<seg_vars, bow_vars>>

\* lines 187-190
SubstituteDashes ==
    /\ tok_pc = "stripped"
    /\ doc_txt' = ReplaceDashes(doc_txt)
    /\ tok_pc' = "scan"
    /\ UNCHANGED <<text, lower, tok_pos, tok_yielded>>
    /\ UNCHANGED <<seg_vars, bow_vars>>

\* lines 191-193: the next match is yielded
YieldToken ==
    /\ tok_pc = "scan"
    /\ MatchStarts(doc_txt, tok_pos) # {}
    /\ LET i == NextMatchStart(doc_txt, tok_pos)
           e == MatchEnd(doc_txt, i)
       IN  /\ tok_yielded' = Append(tok_yielded, SubSeq(doc_txt, i, e))
           /\ tok_pos' = e
    /\ UNCHANGED <<text, lower, doc_txt, tok_pc>>
    /\ UNCHANGED <<seg_vars, bow_vars>>

\* lines 191-193: no match is left, the generator returns
EndOfText ==
    /\ tok_pc = "scan"
    /\ MatchStarts(doc_txt, tok_pos) = {}
    /\ tok_pc' = "done"
    /\ UNCHANGED <<text, lower, doc_txt, tok_pos, tok_yielded>>
    /\ UNCHANGED <<seg_vars, bow_vars>>

TokNext ==
    \/ Lowercase
    \/ RemovePeriods
    \/ SubstituteDashes
    \/ YieldToken
    \/ EndOfText

TokSpec == TokInit /\ [][TokNext]_vars

----------------------------------------------------------------------------
\* Properties of segment_fuzzy

\* number of tokens in a segment
TokenCount(seg) == Len(Flatten(seg))

\* the leftover segment is the one yielded after the source is exhausted
IsLeftover(k) == Finished /\ current_segment # <<>> /\ k = Len(emitted)

NegativeTolerance == tolerance.num < 0

\* C1: segment_fuzzy is lossless and order-preserving: for every document,
\* segment_size >= 1 and tolerance, the generator runs to its end and the
\* tokens of all chunks of all yielded segments, concatenated in emission
\* order, are exactly the tokens of the input chunks in input order.
C1_Lossless ==
    <>(Finished /\ Flatten(Flatten(emitted)) = Flatten(document))

\* C2: segment_fuzzy yields finitely many segments: the loop eventually
\* exhausts the source and the generator stops.
C2_Terminates == <>Finished

\* C3: with a negative tolerance a chunk longer than segment_size (of any
\* length) is accepted: the iteration that takes it into an empty accumulator
\* yields the segment that consists of that single whole chunk.
C3_OversizedChunkOwnSegment ==
    [][(/\ NegativeTolerance
        /\ seg_pc = "loop"
        /\ HasNextChunk
        /\ yielded = <<>>
        /\ current_segment = <<>>
        /\ Len(NextChunk) > segment_size)
       => yielded' = <<<<NextChunk>>>>]_vars

\* C4: with a negative tolerance no chunk is ever split: every chunk of every
\* yielded segment is a whole input chunk, and the chunks of all yielded
\* segments, in order, are the input chunk sequence.
C4_NeverSplits ==
    NegativeTolerance =>
        /\ [](\A k \in DOMAIN emitted : Range(emitted[k]) \subseteq Range(document))
        /\ <>(Finished /\ Flatten(emitted) = document)

\* C5: with a non-negative tolerance (a fraction in (0,1) having been turned
\* into round(segment_size * tolerance)) the token count of every yielded
\* segment other than the final leftover differs from segment_size by at most
\* the effective tolerance.
C5_WithinTolerance ==
    (seg_pc # "start" /\ ~NegativeTolerance) =>
        \A k \in DOMAIN emitted :
            ~IsLeftover(k) =>
                LET n == TokenCount(emitted[k])
                IN  /\ (n - segment_size) * tolerance.den <= tolerance.num
                    /\ (segment_size - n) * tolerance.den <= tolerance.num

\* C5 witness: the generator has finished and yielded, before the end, both a
\* segment longer and a segment shorter than segment_size.
C5_Witness ==
    /\ Finished
    /\ ~NegativeTolerance
    /\ \E k \in DOMAIN emitted :
           ~IsLeftover(k) /\ TokenCount(emitted[k]) > segment_size
    /\ \E k \in DOMAIN emitted :
           ~IsLeftover(k) /\ TokenCount(emitted[k]) < segment_size

----------------------------------------------------------------------------
\* Properties of the bag-of-words pipeline

\* d maps the keys one-to-one onto 1..N, N the number of keys
IsDenseBijection(d, keys) ==
    /\ DOMAIN d = keys
    /\ \A x, y \in DOMAIN d : d[x] = d[y] => x = y
    /\ {d[x] : x \in DOMAIN d} = 1..Cardinality(keys)

\* the tokens that occur somewhere in the corpus
CorpusTokens ==
    {w \in Tokens : \E k \in DOMAIN doc_tokens :
                        \E j \in DOMAIN doc_tokens[k] : doc_tokens[k][j] = w}

\* number of occurrences of word w in document k
Occurrences(k, w) ==
    Cardinality({j \in DOMAIN doc_tokens[k] : doc_tokens[k][j] = w})

RECURSIVE SumOverDocs(_, _)
SumOverDocs(K, w) ==
    IF K = {} THEN 0
    ELSE LET k == CHOOSE x \in K : TRUE
         IN  Occurrences(k, w) + SumOverDocs(K \ {k}, w)

\* number of occurrences of word w in the whole corpus
CorpusCount(w) == SumOverDocs(DOMAIN doc_tokens, w)

RECURSIVE SumOverRows(_, _)
SumOverRows(table, I) ==
    IF I = {} THEN 0
    ELSE LET i == CHOOSE x \in I : TRUE
         IN  table[i].count + SumOverRows(table, I \ {i})

\* the counts of token id tid summed over all documents of the table
TableCount(table, tid) ==
    SumOverRows(table, {i \in DOMAIN table : table[i].token_id = tid})

DocIdsOf(table) == {table[i].doc_id : i \in DOMAIN table}

\* C6: create_dictionary maps the distinct tokens of its input one-to-one onto
\* 1..N: for the nested token lists the keys are the union of the tokens of
\* all inner lists, for the flat label list they are the labels.
C6_DictionaryBijection ==
    /\ bow_pc \in {"types", "dicts", "built", "failed"} =>
           IsDenseBijection(id_types, CorpusTokens)
    /\ bow_pc \in {"dicts", "built", "failed"} =>
           IsDenseBijection(doc_ids, {doc_labels[k] : k \in DOMAIN doc_labels})

\* C6 witness: both dictionaries are built, from a corpus of two documents in
\* which a token is repeated, and the ids do not follow the order of the words.
C6_Witness ==
    /\ bow_pc = "dicts"
    /\ Len(doc_tokens) = 2
    /\ Cardinality(DOMAIN id_types) = 2
    /\ \E w \in Tokens : CorpusCount(w) >= 2
    /\ id_types[Words[2]] = 1
    /\ doc_ids[Labels[1]] = 2

\* C7: the table of create_sparse_bow has exactly one row (doc id, token id)
\* for every token that occurs in the document and none for a token that does
\* not, no pair occurs in two rows, the value of a row is the number of
\* occurrences of the token in the document, and the sum of the values of a
\* token id over the documents is the number of occurrences in the corpus.
C7_SparseBowCounts ==
    bow_pc \in {"built", "failed"} =>
        /\ \A k \in DOMAIN doc_labels : \A w \in DOMAIN id_types :
               LET rows == {i \in DOMAIN sparse_bow :
                               /\ sparse_bow[i].doc_id = doc_ids[doc_labels[k]]
                               /\ sparse_bow[i].token_id = id_types[w]}
               IN  /\ Cardinality(rows) = IF Occurrences(k, w) > 0 THEN 1 ELSE 0
                   /\ \A i \in rows : sparse_bow[i].count = Occurrences(k, w)
        /\ \A i, j \in DOMAIN sparse_bow :
               (/\ sparse_bow[i].doc_id = sparse_bow[j].doc_id
                /\ sparse_bow[i].token_id = sparse_bow[j].token_id) => i = j
        /\ \A w \in DOMAIN id_types :
               TableCount(sparse_bow, id_types[w]) = CorpusCount(w)

\* C7 witness: a table is built from two documents that share a token, one of
\* them holding a token twice.
C7_Witness ==
    /\ bow_pc = "built"
    /\ Len(doc_tokens) = 2
    /\ \E w \in Tokens : Occurrences(1, w) > 0 /\ Occurrences(2, w) > 0
    /\ \E i \in DOMAIN sparse_bow : sparse_bow[i].count = 2

\* C8: every document id of the table built by create_sparse_bow survives any
\* sequence of remove_features calls: it still occurs in at least one row (the
\* row with token id 0 if all tokens of the document were removed).
C8_DocIdsSurvive ==
    bow_pc = "built" => DocIdsOf(sparse_bow) \subseteq DocIdsOf(clean_sparse_bow)

\* the row stays: its token id is not the id of a word that is both in the
\* dictionary and in the feature set
Stays(row, type_dictionary, feats) ==
    ~\E w \in DOMAIN type_dictionary \cap feats : type_dictionary[w] = row.token_id

\* the index in table of the k-th row that stays
KthStaying(table, type_dictionary, feats, k) ==
    CHOOSE i \in DOMAIN table :
        /\ Stays(table[i], type_dictionary, feats)
        /\ Cardinality({j \in 1..i : Stays(table[j], type_dictionary, feats)}) = k

\* C9: remove_features returns, without raising, exactly the rows of its input
\* whose token id is not the id of a word in both the dictionary and the
\* feature set, with counts and order unchanged; features the dictionary does
\* not hold and an empty feature set leave the table as it is.
C9_RemoveFeaturesExact ==
    [][(bow_pc = "built" /\ last_op' = "remove_features") =>
          LET old == clean_sparse_bow
              new == clean_sparse_bow'
              n == Cardinality({i \in DOMAIN old : Stays(old[i], id_types, features')})
          IN  /\ error' = "none"
              /\ Len(new) = n
              /\ \A k \in 1..n : new[k] = old[KthStaying(old, id_types, features', k)]
              /\ (features' \cap DOMAIN id_types = {}) => new = old]_vars

\* C9 witness: a call with a feature of the dictionary and a feature the
\* dictionary lacks has removed rows and kept at least two.
C9_Witness ==
    /\ last_op = "remove_features"
    /\ error = "none"
    /\ AbsentWord \in features
    /\ features \cap DOMAIN id_types # {}
    /\ Len(clean_sparse_bow) < Len(sparse_bow)
    /\ Len(clean_sparse_bow) >= 2

----------------------------------------------------------------------------
\* Properties of find_stopwords and save_sparse_bow

\* the ids of the tokens that occur in the table (0 marks an empty document)
TokenIdsOf(table) == {table[i].token_id : i \in DOMAIN table} \ {0}

\* the aggregate count of a word of the dictionary in the table
AggregateCount(table, w) == TableCount(table, id_types[w])

\* C11: find_stopwords(table, type_dictionary, n) returns the n words with the
\* largest aggregate counts: min(n, number of distinct tokens of the table)
\* words, in order of non-increasing aggregate count, each with an aggregate
\* count at least that of every token of the table that is not returned.
C11_StopwordsLargest ==
    last_op = "find_stopwords" =>
        LET table == clean_sparse_bow
            returned == Range(stopwords)
        IN  /\ error = "none"
            /\ Len(stopwords) = Min(mfw, Cardinality(TokenIdsOf(table)))
            /\ returned \subseteq DOMAIN id_types
            /\ \A i, j \in DOMAIN stopwords :
                  i < j => AggregateCount(table, stopwords[i])
                               >= AggregateCount(table, stopwords[j])
            /\ \A w \in DOMAIN id_types :
                  (id_types[w] \in TokenIdsOf(table) /\ w \notin returned) =>
                      \A v \in returned :
                          AggregateCount(table, v) >= AggregateCount(table, w)

\* C17: for every table built by create_sparse_bow, a row with token id 0 for
\* an empty document included, and every n >= 0, n larger than the number of
\* distinct tokens included, find_stopwords completes without a lookup failure
\* and returns only keys of the type dictionary.
C17_StopwordsNoLookupFailure ==
    (last_op = "find_stopwords" /\ clean_sparse_bow = sparse_bow) =>
        /\ error = "none"
        /\ Range(stopwords) \subseteq DOMAIN id_types

\* the cells of the table that hold a count other than 0, in row order
NonZeroCells(table) == SelectSeq(table, LAMBDA r : r.count # 0)

\* C12: save_sparse_bow writes the banner line, then the header line
\* "numDocs numTokenTypes totalCount" (the largest doc id, the largest token
\* id, the sum of all counts), then exactly one line "doc_id token_id count"
\* per non-zero cell of the table in row order, so that no data line carries
\* a count of 0 or a token id of 0.
C12_MatrixMarketFile ==
    last_op = "save_sparse_bow" =>
        LET table == clean_sparse_bow
            cells == NonZeroCells(table)
        IN  /\ Len(mm_file) = 2 + Len(cells)
            /\ mm_file[1] = "%%MatrixMarket matrix coordinate real general"
            /\ table # <<>> =>
                  mm_file[2] =
                      ToString(SetMax(DocIdsOf(table))) \o " "
                      \o ToString(SetMax({table[i].token_id : i \in DOMAIN table}))
                      \o " " \o ToString(SumOverRows(table, DOMAIN table))
            /\ \A i \in DOMAIN cells :
                  mm_file[2 + i] =
                      ToString(cells[i].doc_id) \o " "
                      \o ToString(cells[i].token_id) \o " "
                      \o ToString(cells[i].count)
            /\ \A d \in DocIdsOf(table), t \in 0..NumTokens :
                  \A i \in 3..Len(mm_file) :
                      /\ mm_file[i] # ToString(d) \o " 0 " \o ToString(t)
                      /\ mm_file[i] # ToString(d) \o " " \o ToString(t) \o " 0"

----------------------------------------------------------------------------
\* Properties of the table as built

\* the rows of a table that belong to document id d
RowsOfDoc(table, d) == SelectSeq(table, LAMBDA r : r.doc_id = d)

\* C16: in the table returned by create_sparse_bow a document with an empty
\* token list has exactly one row, (doc id, 0) with count 0, a document with
\* at least one token has rows and none of them with token id 0; so every
\* document id 1..D occurs in the table.
C16_EmptyDocumentSentinel ==
    bow_pc \in {"built", "failed"} =>
        /\ \A k \in DOMAIN doc_tokens :
              LET rows == RowsOfDoc(sparse_bow, doc_ids[doc_labels[k]])
              IN  IF doc_tokens[k] = <<>>
                  THEN rows = <<[doc_id   |-> doc_ids[doc_labels[k]],
                                 token_id |-> 0,
                                 count    |-> 0]>>
                  ELSE /\ rows # <<>>
                       /\ \A i \in DOMAIN rows : rows[i].token_id # 0
        /\ DocIdsOf(sparse_bow) = 1..Len(doc_labels)

\* C16 witness: a table built from an empty document and a document with two
\* distinct tokens.
C16_Witness ==
    /\ bow_pc = "built"
    /\ Len(doc_tokens) = 2
    /\ \E k \in 1..2 : doc_tokens[k] = <<>>
    /\ \E k \in 1..2 : Len(doc_tokens[k]) = 2 /\ doc_tokens[k][1] # doc_tokens[k][2]
    /\ Len(sparse_bow) = 3

\* the feature sets passed to remove_features
FeatureSets == SUBSET (Tokens \cup {AbsentWord})

\* C18: remove_features composes as set union and is idempotent: for the table
\* T a call is made on, the feature set B of the call and every feature set A,
\* removing A from the table the call returned gives remove_features(T, A
\* union B), as does removing B after A; removing B again from the returned
\* table changes nothing.
C18_RemoveFeaturesComposes ==
    [][(bow_pc = "built" /\ last_op' = "remove_features" /\ error' = "none") =>
          LET T == clean_sparse_bow
              B == features'
              TB == clean_sparse_bow'
          IN  /\ \A A \in FeatureSets :
                    ~remove_features_raises(id_types, A) =>
                        /\ remove_features(TB, id_types, A)
                               = remove_features(T, id_types, A \cup B)
                        /\ remove_features(remove_features(T, id_types, A),
                                           id_types, B)
                               = remove_features(TB, id_types, A)
              /\ remove_features(TB, id_types, B) = TB]_vars

\* C18 witness: remove_features has removed the rows of a word that occurs in
\* two documents from a table that an earlier call had removed another word
\* from.
C18_Witness ==
    /\ last_op = "remove_features"
    /\ error = "none"
    /\ \E v \in features \cap DOMAIN id_types :
          Len(RowsOfToken(sparse_bow, id_types[v])) = 2
    /\ \E w \in DOMAIN id_types \ features :
          /\ RowsOfToken(sparse_bow, id_types[w]) # <<>>
          /\ RowsOfToken(clean_sparse_bow, id_types[w]) = <<>>
    /\ \A v \in features \cap DOMAIN id_types :
          RowsOfToken(clean_sparse_bow, id_types[v]) = <<>>

----------------------------------------------------------------------------
\* Properties of the single steps of segment_fuzzy

\* the generator is about to run one iteration of its loop
Iterating == seg_pc = "loop" /\ yielded = <<>> /\ HasNextChunk

\* the carried chunk is the tail a split left of the chunk drawn last
CarryIsSplitTail ==
    carry # <<>> /\ doc_pos >= 1 /\ carry # document[doc_pos]

\* the carried chunk is a whole chunk of the document, popped from a segment
CarryIsEvictedChunk ==
    carry # <<>> /\ doc_pos >= 1 /\ carry = document[doc_pos]

\* p is a non-empty prefix of s
IsNonEmptyPrefix(p, s) ==
    p # <<>> /\ Len(p) <= Len(s) /\ p = SubSeq(s, 1, Len(p))

\* the step yields a segment made of the first tokens of the carried chunk, as
\* its only chunk
YieldsPrefixOfCarry ==
    /\ yielded' # <<>>
    /\ Len(yielded'[1]) = 1
    /\ IsNonEmptyPrefix(yielded'[1][1], carry)

\* the carried chunk, whole, is the first chunk of the segment the step
\* builds or yields
CarryBecomesFirstChunk ==
    \/ current_segment' = <<carry>>
    \/ yielded' # <<>> /\ yielded'[1] # <<>> /\ yielded'[1][1] = carry

\* the split of lines 299-302 and what it yields and carries
SplitStepAsClaimed ==
    LET chunk == NextChunk
        size == current_size + Len(chunk)
        too_long == size - segment_size
        too_short == segment_size - current_size
        prefix == SubSeq(chunk, 1, Len(chunk) - too_long)
        suffix == SubSeq(chunk, Len(chunk) - too_long + 1, Len(chunk))
    IN  (/\ Iterating
         /\ size >= segment_size
         /\ tolerance.num >= 0
         /\ too_long * tolerance.den > tolerance.num
         /\ too_short * tolerance.den > tolerance.num) =>
            /\ yielded' = <<Append(current_segment, prefix)>>
            /\ TokenCount(yielded'[1]) = segment_size
            /\ prefix # <<>>
            /\ Len(suffix) = too_long
            /\ carry' = suffix
            /\ current_segment' = <<>>

\* C14 as stated: at a split step the yielded segment holds exactly
\* segment_size tokens and ends with the non-empty prefix of the chunk that is
\* left when its last too_long tokens are removed, and those too_long tokens,
\* as one chunk, become the first chunk of the next segment.
C14_SplitTailIsNextFirstChunk ==
    [][/\ SplitStepAsClaimed
       /\ (Iterating /\ CarryIsSplitTail) => CarryBecomesFirstChunk]_vars

\* C14, amended: at a split step the yielded segment holds exactly
\* segment_size tokens and ends with the non-empty prefix of the chunk that is
\* left when its last too_long tokens are removed; those too_long tokens are
\* carried over as one chunk and open the next segment, whole when they are
\* not split again and with their first segment_size tokens when they are.
C14_SplitStep ==
    [][/\ SplitStepAsClaimed
       /\ (Iterating /\ CarryIsSplitTail) =>
              \/ CarryBecomesFirstChunk
              \/ /\ YieldsPrefixOfCarry
                 /\ Len(yielded'[1][1]) = segment_size]_vars

\* C14 witness: one chunk has been split a second time: a segment of it has
\* been received, the next is being handed over and a tail is carried on.
C14_Witness ==
    /\ Len(document) = 1
    /\ tolerance.num >= 0
    /\ Len(carry) >= 2
    /\ emitted # <<>>
    /\ yielded # <<>>
    /\ TokenCount(yielded[1]) = segment_size
    /\ CarryIsSplitTail

\* the step without a split of lines 303-307 and what it yields and carries
NoSplitStepAsClaimed ==
    LET chunk == NextChunk
        size == current_size + Len(chunk)
        too_long == size - segment_size
        too_short == segment_size - current_size
        split == /\ tolerance.num >= 0
                 /\ too_long * tolerance.den > tolerance.num
                 /\ too_short * tolerance.den > tolerance.num
    IN  (Iterating /\ size >= segment_size /\ ~split) =>
            IF too_long >= too_short
            THEN /\ yielded' = <<current_segment>>
                 /\ carry' = chunk
                 /\ current_segment' = <<>>
            ELSE /\ yielded' = <<Append(current_segment, chunk)>>
                 /\ carry' = <<>>
                 /\ current_segment' = <<>>

\* C15 as stated, on the runs with 0 <= tolerance < segment_size: at a step
\* that fills the segment without a split, too_long >= too_short yields the
\* segment without the chunk, and that whole chunk becomes the first chunk of
\* the next segment; too_short > too_long yields the segment with the chunk
\* as its last chunk and carries nothing.
C15_EvictedChunkIsNextFirstChunk ==
    [][/\ NoSplitStepAsClaimed
       /\ (/\ Iterating
           /\ CarryIsEvictedChunk
           /\ tolerance.num >= 0
           /\ tolerance.num < segment_size * tolerance.den) =>
              CarryBecomesFirstChunk]_vars

\* C15, amended: at a step that fills the segment without a split,
\* too_long >= too_short yields the segment without the chunk and carries the
\* whole chunk over as the chunk of the next iteration, which appends it to
\* the next segment, splits it or pops it again; too_short > too_long yields
\* the segment with the chunk as its last chunk and carries nothing.
C15_NoSplitStep ==
    [][/\ NoSplitStepAsClaimed
       /\ (Iterating /\ CarryIsEvictedChunk) =>
              \/ CarryBecomesFirstChunk
              \/ YieldsPrefixOfCarry /\ carry' # <<>>
              \/ yielded' = <<<<>>>> /\ carry' = carry]_vars

\* C15 witness: a chunk popped from a segment that has been received is split
\* as the first chunk of the next segment.
C15_Witness ==
    /\ doc_pos >= 2
    /\ emitted # <<>>
    /\ TokenCount(emitted[Len(emitted)]) > 0
    /\ Range(Flatten(emitted[Len(emitted)])) \cap Range(document[doc_pos]) = {}
    /\ yielded # <<>>
    /\ Len(yielded[1]) = 1
    /\ IsNonEmptyPrefix(yielded[1][1], document[doc_pos])
    /\ CarryIsSplitTail

----------------------------------------------------------------------------
\* Properties of tokenize

\* number of characters of a token that belong to a set of characters
CountIn(tok, S) == Cardinality({i \in DOMAIN tok : tok[i] \in S})

RECURSIVE IsSubsequence(_, _)
\* the characters of s occur in t in the same order
IsSubsequence(s, t) ==
    IF s = <<>> THEN TRUE
    ELSE IF t = <<>> THEN FALSE
    ELSE IF Head(s) = Head(t) THEN IsSubsequence(Tail(s), Tail(t))
    ELSE IsSubsequence(s, Tail(t))

\* what the claim says of one token, upper-case letters apart
TokenShape(tok) ==
    /\ Range(tok) \subseteq Letters \cup Punctuation
    /\ CountIn(tok, Letters) >= 2
    /\ tok[1] \in Letters
    /\ tok[Len(tok)] \in Letters
    /\ CountIn(tok, Punctuation) <= 1
    /\ "." \notin Range(tok)

\* the tokens of the doctest, line 179
ExampleTokens ==
    <<<<"t", "h", "i", "s">>, <<"i", "s">>, <<"o", "n", "e">>,
      <<"e", "x", "a", "m", "p", "l", "e">>, <<"t", "e", "x", "t">>>>

\* the tokens come in text order, and the doctest gives its tokens
TokensInTextOrder ==
    /\ IsSubsequence(Flatten(tok_yielded), Lowered(text))
    /\ (text = ExampleText /\ tok_pc = "done") => tok_yielded = ExampleTokens

\* C13 as stated: tokenize with the default pattern and lower=True yields, in
\* text order, only tokens that have at least two letters, start and end with
\* a letter, hold at most one punctuation character, no period and no
\* upper-case letter; a single letter is never yielded.
C13_TokensNoUpperCase ==
    (lower /\ tok_pc \in {"scan", "done"}) =>
        /\ \A k \in DOMAIN tok_yielded :
              /\ TokenShape(tok_yielded[k])
              /\ CountIn(tok_yielded[k], UpperLetters) = 0
        /\ TokensInTextOrder

\* C13, amended: tokenize with the default pattern and lower=True yields, in
\* text order, only tokens that have at least two letters, start and end with
\* a letter, hold at most one punctuation character, no period and no
\* upper-case letter that has a lower-case form; a single letter is never
\* yielded.
C13_Tokens ==
    (lower /\ tok_pc \in {"scan", "done"}) =>
        /\ \A k \in DOMAIN tok_yielded :
              /\ TokenShape(tok_yielded[k])
              /\ CountIn(tok_yielded[k], CasedUpperLetters) = 0
        /\ TokensInTextOrder

\* C13 witness: a text with an upper-case letter, a hyphen and an upper-case
\* letter without a lower-case form has been tokenized into one token.
C13_Witness ==
    /\ lower
    /\ tok_pc = "done"
    /\ "B" \in Range(text)
    /\ Len(tok_yielded) = 1
    /\ "b" \in Range(tok_yielded[1])
    /\ "-" \in Range(tok_yielded[1])
    /\ "U+2102" \in Range(tok_yielded[1])

====
